---- MODULE Spec2Model ----
(***************************************************************************)
(* InputRenderer (webxr-samples, src/unnamed/part_001 lines 224-611): the  *)
(* pools of controller, laser and cursor nodes that the per-frame          *)
(* addController / addLaserPointer / addCursor / reset calls reuse.        *)
(*                                                                         *)
(* A node is a record of its visibility flag and transform.  The children  *)
(* of the InputRenderer (its part of the scene graph) are the nodes the    *)
(* pools hold, each handed to addNode by the statement that put it into    *)
(* its pool (lines 293, 311, 339, 348, 372, 380), together with the nodes  *)
(* no pool refers to any more (unreferenced), which stay children because  *)
(* nothing removes a child.  A pooled node is named by its pool and its    *)
(* index in the pool.                                                      *)
(***************************************************************************)
EXTENDS Integers, Sequences, FiniteSets, Bags, TLC

(***************************************************************************)
(* Bounds of the model.                                                    *)
(***************************************************************************)
\* Most children the InputRenderer may have: an operation that would add
\* one more is not taken.
MaxNodes == 3
\* _maxInputElements is 32 in the source (line 238).  The model gives the
\* pools this capacity instead, so that a pool fills and wraps within
\* MaxNodes nodes.
MaxInputElements == 2


\* XRInputSource.handedness values used and the profile ids of the devices.
Handednesses == {"left", "right"}
Profiles == {"p"}

\* The values of this._renderer: none, or the renderer of the scene.
NoRenderer == "none"
Renderers == {"gl"}

\* session.visibilityState
VisibilityStates == {"visible", "visible-blurred", "hidden"}

\* The kinds reset(options) can select.
Kinds == {"controllers", "lasers", "cursors"}

VARIABLES
  _controllers,       \* key -> [nodes, activeCount, visible]; empty = null
  _lasers,            \* sequence of nodes; <<>> = null
  _cursors,           \* sequence of nodes; <<>> = null
  _activeLasers,
  _activeCursors,
  _blurred,
  _renderer,
  _maxInputElements,
  unreferenced,       \* bag of the children no pool refers to any more
  pending,            \* bag of the fetchProfile requests not settled yet
  watch,              \* which history a behaviour records: see the specifications
  last,               \* history: the operation taken last and its outcome
  acq,                \* history: acquisitions of each pool since it was seeded
  frame,              \* history: what was shown since the last reset of all kinds
  calls,              \* history: the poses shown from one pool since its reset
  awaiting,           \* history: keys a request registered, not shown since
  track,              \* history: one key's addController calls around its registration
  made                \* history: the laser and cursor meshes created

\* The poses handed to the show calls on pool p (0 is a node's initial
\* transform): two where the poses are told apart (the pool whose calls are
\* recorded), one elsewhere.
PosesOf(p) == IF watch = "overflow" /\ calls.pool = p THEN {1, 2} ELSE {1}

progVars == <<_controllers, _lasers, _cursors, _activeLasers, _activeCursors,
              _blurred, _renderer, _maxInputElements, unreferenced>>
vars == <<_controllers, _lasers, _cursors, _activeLasers, _activeCursors,
          _blurred, _renderer, _maxInputElements, unreferenced, pending,
          watch, last, acq, frame, calls, awaiting, track,
          made>>

\* null for _controllers (an object with no keys behaves the same everywhere
\* the code reads it: lines 297-304, 321-328, 393-394) and for the arrays.
NullMap == <<>>
NullPool == <<>>

(***************************************************************************)
(* Node (js/render/core/node, not among the sources).                      *)
(***************************************************************************)
NewNode(kind) ==
  [kind |-> kind, visible |-> TRUE, matrix |-> 0, translation |-> 0]

\* clone() copies the transform and visibility state of the node.
Clone(n) == n

Range(s) == {s[i] : i \in DOMAIN s}

\* The nodes of a pool, as a bag.
RECURSIVE BagOfSeq(_)
BagOfSeq(s) ==
  IF s = <<>> THEN EmptyBag ELSE SetToBag({Head(s)}) (+) BagOfSeq(Tail(s))

\* The nodes of the controller pools of the keys given, as a bag.
RECURSIVE ControllerBag(_)
ControllerBag(keys) ==
  IF keys = {} THEN EmptyBag
  ELSE LET k == CHOOSE x \in keys : TRUE
       IN BagOfSeq(_controllers[k].nodes) (+) ControllerBag(keys \ {k})

\* The number of nodes in the controller pools of the keys given.
RECURSIVE SumLen(_)
SumLen(keys) ==
  IF keys = {} THEN 0
  ELSE LET k == CHOOSE x \in keys : TRUE
       IN Len(_controllers[k].nodes) + SumLen(keys \ {k})

\* The number of children of the InputRenderer.
ChildCount ==
  SumLen(DOMAIN _controllers) + Len(_lasers) + Len(_cursors)
    + BagCardinality(unreferenced)

\* Among the MaxNodes children one is kept for each request in flight (the
\* node its completion registers): n more children fit.
Room(n) == ChildCount + BagCardinality(pending) + n <= MaxNodes

\* x.visible = false for every node x of a pool (lines 397-399, 403-405,
\* 409-411).
Hide(pool) == [i \in DOMAIN pool |-> [pool[i] EXCEPT !.visible = FALSE]]

\* line 290, 300, 324: the property name of a controller pool.
ControllerKey(profile, handedness) == profile \o "_" \o handedness

Keys == {ControllerKey(p, h) : p \in Profiles, h \in Handednesses}

\* (mutant of NextActive: the count is not taken modulo the capacity)
NextActiveNoWrap(count) == count + 1

\* (mutant of WithMatrix: an instance already visible keeps its transform)
WithMatrixIfHidden(node, matrix) ==
  IF node.visible THEN node
  ELSE [node EXCEPT !.matrix = matrix, !.visible = TRUE]

\* lines 316-317, 361-362: the node acquired gets the pose and is shown.
WithMatrix(node, matrix) == [node EXCEPT !.matrix = matrix, !.visible = TRUE]

\* lines 385-386: the cursor acquired gets the position and is shown.
WithTranslation(node, cursorPos) ==
  [node EXCEPT !.translation = cursorPos, !.visible = TRUE]

\* lines 314, 354, 383: the active count after one acquisition.
NextActive(count) == (count + 1) % _maxInputElements

(***************************************************************************)
(* History variables.                                                      *)
(***************************************************************************)
PoolNames == Keys \cup {"lasers", "cursors"}

\* Each history is recorded by the behaviours of one specification only
\* (watch names it) and keeps its initial value in the others, so that the
\* histories do not multiply each other's states: "ops", "resets", "pools"
\* or "frames".

KindOf(op) ==
  IF op = "addController" THEN "controllers"
  ELSE IF op = "addLaserPointer" THEN "lasers"
  ELSE IF op = "addCursor" THEN "cursors"
  ELSE "none"

NoOp == [op |-> "new", key |-> "", threw |-> FALSE, opts |-> {},
         afterReset |-> FALSE, slot |-> 0]

\* The settling of a request that the device history tells from the other
\* operations.
DeviceOps == {"fetchProfile.rejected"}

\* The operation taken last.  Under "ops": op, the operation; key, the
\* controller key it named ("" if none); threw, it raised an error.  Under
\* "resets": op, the operation if it is a reset or a show call ("other"
\* if not); key as before; opts, the kinds a reset selected; afterReset, a
\* show call taken immediately after a reset that selected its kind; slot,
\* the index (from 1) of the instance that show call acquired (0: none).
\* Under "devices": op, the operation if it is one of DeviceOps ("other" if
\* not); threw, it is one of DeviceOps and raised an error.
Last(op, key, threw, opts, slot) ==
  IF watch = "ops"
    THEN [op |-> op, key |-> key, threw |-> threw, opts |-> {},
          afterReset |-> FALSE, slot |-> 0]
  ELSE IF watch = "resets"
    THEN LET after == last.op = "reset" /\ KindOf(op) \in last.opts
         IN [op |-> IF op = "reset" \/ KindOf(op) # "none" THEN op ELSE "other",
             key |-> IF after THEN key ELSE "", threw |-> FALSE, opts |-> opts,
             afterReset |-> after, slot |-> IF after THEN slot ELSE 0]
  ELSE IF watch = "devices"
    THEN [op |-> IF op \in DeviceOps THEN op ELSE "other", key |-> "",
          threw |-> op \in DeviceOps /\ threw, opts |-> {},
          afterReset |-> FALSE, slot |-> 0]
  ELSE last

NoAcq == [fresh |-> FALSE, seq |-> <<>>]

\* One more acquisition of pool p (slot n), kept while the pool is fresh and
\* at most one acquisition past a full round.
Acquired(p, n) ==
  IF watch # "pools" THEN acq
  ELSE IF acq[p].fresh /\ Len(acq[p].seq) <= _maxInputElements
    THEN [acq EXCEPT ![p].seq = Append(@, n)]
    ELSE [acq EXCEPT ![p] = NoAcq]

\* Pool p was seeded and its slot acquired by the same call (n), or only
\* seeded (n = 0).
SeededWith(p, n) ==
  IF watch # "pools" THEN acq
  ELSE [acq EXCEPT ![p] = [fresh |-> TRUE,
                           seq |-> IF n = 0 THEN <<>> ELSE <<n>>]]

\* The pools named in ps were reset or discarded.
Stale(ps) ==
  IF watch # "pools" THEN acq
  ELSE [p \in PoolNames |-> IF p \in ps THEN NoAcq ELSE acq[p]]

\* clean: the last reset selected all kinds and only show calls followed it;
\* shown: the instances <<pool, slot>> those show calls acquired; wrapped:
\* one of them was acquired twice (more show calls than the pool's capacity).
NoFrame == [clean |-> FALSE, shown |-> {}, wrapped |-> FALSE]

\* A frame's record after a show call acquired slot n of pool p (0: none).
Shown(p, n) ==
  IF watch # "frames" \/ n = 0 \/ ~frame.clean THEN frame
  ELSE [frame EXCEPT !.shown = @ \cup {<<p, n>>},
                     !.wrapped = @ \/ <<p, n>> \in frame.shown]

\* An operation other than a show call or a reset of all kinds.
NotAFrame == NoFrame

\* reset(options)
FrameAfterReset(options) ==
  IF watch = "frames" /\ options = Kinds
    THEN [clean |-> TRUE, shown |-> {}, wrapped |-> FALSE]
    ELSE NoFrame

\* The show calls on one pool (pool: the same through a behaviour).
\* counted: the pool's kind was reset and no renderer change or
\* registration of the pool followed; poses: the poses of the show calls
\* that acquired an instance of the pool since, oldest first (two more than
\* the capacity are kept); threw: one of the show calls on the pool since
\* raised an error.
NoCalls(p) == [pool |-> p, counted |-> FALSE, poses |-> <<>>, threw |-> FALSE]

\* A show call on pool p acquired slot n (0: none) for the pose given, or
\* raised an error.
Called(p, n, pose, threw) ==
  IF watch # "overflow" \/ p # calls.pool \/ ~calls.counted THEN calls
  ELSE IF threw THEN [calls EXCEPT !.threw = TRUE]
  ELSE IF n = 0 THEN calls
  ELSE IF Len(calls.poses) < _maxInputElements + 2
    THEN [calls EXCEPT !.poses = Append(@, pose)]
  ELSE NoCalls(calls.pool)

\* The pools named in ps were replaced or discarded.
Uncounted(ps) ==
  IF watch = "overflow" /\ calls.pool \in ps THEN NoCalls(calls.pool)
  ELSE calls

\* reset(options): a pool of a kind selected that exists, or that the next
\* show call creates, is counted from here.
CountedFrom(options) ==
  LET p == calls.pool
  IN IF watch # "overflow" THEN calls
     ELSE IF (IF p \in Keys THEN "controllers" ELSE p) \notin options
       THEN calls
     ELSE IF \/ p \in DOMAIN _controllers
             \/ p = "lasers" /\ (_lasers # NullPool \/ _renderer # NoRenderer)
             \/ p = "cursors" /\ (_cursors # NullPool \/ _renderer # NoRenderer)
       THEN [pool |-> p, counted |-> TRUE, poses |-> <<>>, threw |-> FALSE]
     ELSE NoCalls(p)

\* Spec section 4.3: the session is Ready when a renderer is attached and
\* the session is not suspended.
Ready == _renderer # NoRenderer /\ ~_blurred

\* The callback of a request registered the key.
Registered(key) ==
  IF watch = "latebound" THEN awaiting \cup {key} ELSE awaiting

\* addController was called for the key: the first call made while the
\* session is Ready ends the wait.
Answered(key) ==
  IF watch = "latebound" /\ Ready THEN awaiting \ {key} ELSE awaiting

\* The addController calls for one key (key: the same through a behaviour).
\* phase: "before" the key's first registration, "tracked" from it on,
\* "ended" once the key was registered again or the renderer changed;
\* early: addController was called for the key before its registration;
\* count: while tracked, the addController calls for the key (those a
\* suspended session ignored left out) since the later of the registration
\* and the last reset that selected the controllers, capped at the capacity.
Untracked(k) == [key |-> k, phase |-> "before", early |-> FALSE, count |-> 0]

TrackRegistered(key) ==
  IF watch # "interleaving" \/ key # track.key THEN track
  ELSE IF track.phase = "before" THEN [track EXCEPT !.phase = "tracked"]
  ELSE [track EXCEPT !.phase = "ended", !.count = 0]

TrackCalled(key) ==
  IF watch # "interleaving" \/ key # track.key THEN track
  ELSE IF track.phase = "before" THEN [track EXCEPT !.early = TRUE]
  ELSE IF track.phase = "tracked" /\ ~_blurred /\ track.count < _maxInputElements
    THEN [track EXCEPT !.count = @ + 1]
  ELSE track

TrackReset(options) ==
  IF watch = "interleaving" /\ track.phase = "tracked"
       /\ "controllers" \in options
    THEN [track EXCEPT !.count = 0]
    ELSE track

\* onRendererChanged
TrackDropped ==
  IF watch = "interleaving" /\ track.phase = "tracked"
    THEN [track EXCEPT !.phase = "ended", !.count = 0]
    ELSE track

\* The calls of _createLaserMesh ("lasers") and _createCursorMesh
\* ("cursors"): ever, on this InputRenderer; now, since the last renderer
\* change.  Each count stops at 2, which stands for more than once.
NoneMade == [k \in {"lasers", "cursors"} |-> [ever |-> 0, now |-> 0]]

\* lines 338, 371: the mesh of the kind was created.
Made(kind) ==
  IF watch # "meshes" THEN made
  ELSE [made EXCEPT ![kind] = [ever |-> IF @.ever < 2 THEN @.ever + 1 ELSE 2,
                               now |-> IF @.now < 2 THEN @.now + 1 ELSE 2]]

\* onRendererChanged
MadeForRenderer ==
  IF watch # "meshes" THEN made
  ELSE [k \in DOMAIN made |-> [made[k] EXCEPT !.now = 0]]

\* The state after the constructor (lines 235-249), recording history w.
InitWatching(w) ==
  /\ _controllers = NullMap
  /\ _lasers = NullPool
  /\ _cursors = NullPool
  /\ _activeLasers = 0
  /\ _activeCursors = 0
  /\ _blurred = FALSE
  /\ _renderer = NoRenderer
  /\ _maxInputElements = MaxInputElements
  /\ unreferenced = EmptyBag
  /\ pending = EmptyBag
  /\ watch = w
  /\ last = NoOp
  /\ acq = [p \in PoolNames |-> NoAcq]
  /\ frame = NoFrame
  /\ calls \in {NoCalls(p) : p \in IF w = "overflow" THEN PoolNames
                                    ELSE {"lasers"}}
  /\ awaiting = {}
  /\ made = NoneMade
  /\ track \in {Untracked(k) : k \in IF w = "interleaving" THEN Keys
                                     ELSE {ControllerKey("p", "left")}}

(***************************************************************************)
(* onRendererChanged, lines 252-260, reached through Node._setRenderer     *)
(* which stores the renderer first.  The nodes of the pools stay children. *)
(***************************************************************************)
onRendererChanged ==
  /\ _controllers' = NullMap
  /\ _lasers' = NullPool
  /\ _cursors' = NullPool
  /\ _activeLasers' = 0
  /\ _activeCursors' = 0
  /\ unreferenced' = unreferenced (+) ControllerBag(DOMAIN _controllers)
                       (+) BagOfSeq(_lasers) (+) BagOfSeq(_cursors)

SetRenderer(r) ==
  /\ r # _renderer
  /\ _renderer' = r
  /\ onRendererChanged
  /\ last' = Last("onRendererChanged", "", FALSE, {}, 0)
  /\ acq' = Stale(PoolNames)
  /\ frame' = NotAFrame
  /\ calls' = Uncounted(PoolNames)
  /\ track' = TrackDropped
  /\ made' = MadeForRenderer
  /\ UNCHANGED <<_blurred, _maxInputElements, pending, watch, awaiting>>

(***************************************************************************)
(* The visibilitychange listener, lines 276-283.                           *)
(***************************************************************************)
\* (mutant of BlurredAfter: every state but "visible" suspends)
BlurredUnlessVisible(state) == state # "visible"

\* lines 278-282
BlurredAfter(state) ==
  IF state = "visible-blurred" THEN TRUE
  ELSE IF state = "visible" THEN FALSE
  ELSE _blurred

visibilitychange(state) ==
  /\ _blurred' = BlurredAfter(state)
  /\ last' = Last("visibilitychange", "", FALSE, {}, 0)
  /\ frame' = NotAFrame
  /\ UNCHANGED <<_controllers, _lasers, _cursors, _activeLasers,
                 _activeCursors, _renderer, _maxInputElements, unreferenced,
                 pending, watch, made, track, awaiting, calls, acq>>

(***************************************************************************)
(* setControllerMesh, lines 286-294.  The node handed in is a new node     *)
(* (line 270: new Gltf2Node).  Line 290 assigns the pool of the key        *)
(* whether or not the key has one; the nodes of a pool it replaces stay    *)
(* children.                                                               *)
(***************************************************************************)
\* (mutant of RegisterControllerMesh: line 291 left out, the node handed in
\* stays visible)
RegisterControllerMeshVisible(handedness, profile) ==
  LET key == ControllerKey(profile, handedness)
      pool == [nodes |-> <<NewNode("controller")>>, activeCount |-> 0,
               visible |-> FALSE]
  IN /\ _controllers' = [k \in DOMAIN _controllers \cup {key} |->
                           IF k = key THEN pool ELSE _controllers[k]]
     /\ unreferenced' = IF key \in DOMAIN _controllers
                          THEN unreferenced (+) BagOfSeq(_controllers[key].nodes)
                          ELSE unreferenced

RegisterControllerMesh(handedness, profile) ==
  LET key == ControllerKey(profile, handedness)
      controllerNode == [NewNode("controller") EXCEPT !.visible = FALSE]
      pool == [nodes |-> <<controllerNode>>, activeCount |-> 0,
               visible |-> FALSE]
  IN /\ _controllers' = [k \in DOMAIN _controllers \cup {key} |->
                           IF k = key THEN pool ELSE _controllers[k]]
     /\ unreferenced' = IF key \in DOMAIN _controllers
                          THEN unreferenced (+) BagOfSeq(_controllers[key].nodes)
                          ELSE unreferenced

\* setControllerMesh called by the application.
setControllerMesh(handedness, profile) ==
  LET key == ControllerKey(profile, handedness)
  IN /\ Room(1)
     /\ RegisterControllerMesh(handedness, profile)
     /\ last' = Last("setControllerMesh", key, FALSE, {}, 0)
     /\ acq' = SeededWith(key, 0)
     /\ frame' = NotAFrame
     /\ calls' = Uncounted({key})
     /\ track' = TrackRegistered(key)
     /\ UNCHANGED <<_lasers, _cursors, _activeLasers, _activeCursors,
                    _blurred, _renderer, _maxInputElements, pending, watch, made, awaiting>>

(***************************************************************************)
(* addController, lines 296-318.                                           *)
(***************************************************************************)
\* (mutant of ControllerReturnsEarly: _blurred is not tested)
ControllerIgnoresBlur == _controllers = NullMap

\* line 297
ControllerReturnsEarly == _controllers = NullMap \/ _blurred

\* line 302
NoController(key) == key \notin DOMAIN _controllers

\* lines 298, 303: return.
ControllerNoOp(key) ==
  /\ last' = Last("addController", key, FALSE, {}, 0)
  /\ awaiting' = Answered(key)
  /\ track' = TrackCalled(key)
  /\ UNCHANGED <<progVars, pending, watch, made, calls, acq, frame>>

\* lines 306-317
ShowController(gripMatrix, key) ==
  LET controller == _controllers[key]
      reuse == controller.activeCount < Len(controller.nodes)
      pool == IF reuse THEN controller.nodes
              ELSE Append(controller.nodes, Clone(controller.nodes[1]))
      slot == IF reuse THEN controller.activeCount + 1 ELSE Len(pool)
  IN /\ reuse \/ Room(1)
     /\ _controllers' = [_controllers EXCEPT
          ![key].nodes = [pool EXCEPT ![slot] = WithMatrix(@, gripMatrix)],
          ![key].activeCount = NextActive(controller.activeCount)]
     /\ last' = Last("addController", key, FALSE, {}, slot)
     /\ acq' = Acquired(key, slot)
     /\ frame' = Shown(key, slot)
     /\ calls' = Called(key, slot, gripMatrix, FALSE)
     /\ awaiting' = Answered(key)
     /\ track' = TrackCalled(key)
     /\ UNCHANGED <<_lasers, _cursors, _activeLasers, _activeCursors,
                    _blurred, _renderer, _maxInputElements, unreferenced,
                    pending, watch, made>>

\* (mutant of addController: a key without a pool gets one, seeded with a
\* new node that is shown)
addControllerRegistering(gripMatrix, handedness, profile) ==
  LET key == ControllerKey(profile, handedness)
      node == [NewNode("controller") EXCEPT !.matrix = gripMatrix]
  IN IF ControllerReturnsEarly THEN ControllerNoOp(key)
     ELSE IF NoController(key)
       THEN /\ Room(1)
            /\ _controllers' =
                 [k \in DOMAIN _controllers \cup {key} |->
                    IF k = key
                      THEN [nodes |-> <<node>>, activeCount |-> NextActive(0),
                            visible |-> FALSE]
                      ELSE _controllers[k]]
            /\ last' = Last("addController", key, FALSE, {}, 1)
            /\ acq' = SeededWith(key, 1)
            /\ frame' = Shown(key, 1)
            /\ UNCHANGED <<_lasers, _cursors, _activeLasers, _activeCursors,
                           _blurred, _renderer, _maxInputElements,
                           unreferenced, pending, watch, made, track, awaiting, calls>>
     ELSE ShowController(gripMatrix, key)

addController(gripMatrix, handedness, profile) ==
  LET key == ControllerKey(profile, handedness)
  IN IF ControllerReturnsEarly THEN ControllerNoOp(key)
     ELSE IF NoController(key) THEN ControllerNoOp(key)
     ELSE ShowController(gripMatrix, key)

(***************************************************************************)
(* hideController, lines 320-330: sets the property `visible` of the pool  *)
(* record, not of a node.                                                  *)
(***************************************************************************)
\* (mutant of HiddenController: the nodes of the pool are hidden)
HiddenControllerNodes(controller) ==
  [controller EXCEPT !.nodes = Hide(controller.nodes)]

\* line 329
HiddenController(controller) == [controller EXCEPT !.visible = TRUE]

hideController(handedness, profile) ==
  LET key == ControllerKey(profile, handedness)
  IN /\ _controllers' =
          IF _controllers = NullMap \/ key \notin DOMAIN _controllers
            THEN _controllers
            ELSE [_controllers EXCEPT ![key] = HiddenController(@)]
     /\ last' = Last("hideController", key, FALSE, {}, 0)
     /\ frame' = NotAFrame
     /\ UNCHANGED <<_lasers, _cursors, _activeLasers, _activeCursors,
                    _blurred, _renderer, _maxInputElements, unreferenced,
                    pending, watch, made, track, awaiting, calls, acq>>

(***************************************************************************)
(* addLaserPointer, lines 332-363.                                         *)
(***************************************************************************)
\* line 333
LaserReturnsEarly == _blurred

\* (mutant of LaserMeshNeeded: the pool at hand is not looked at)
LaserMeshAlwaysNeeded == _renderer # NoRenderer

\* line 337
LaserMeshNeeded == _lasers = NullPool /\ _renderer # NoRenderer

addLaserPointer(matrix) ==
  IF LaserReturnsEarly
    THEN /\ last' = Last("addLaserPointer", "", FALSE, {}, 0)
         /\ UNCHANGED <<progVars, pending, watch, made, track, awaiting, calls, acq, frame>>
    ELSE
      LET ls1 == IF LaserMeshNeeded THEN <<NewNode("laser")>> ELSE _lasers
          reuse == _activeLasers < Len(ls1)
          clone == ~reuse /\ ls1 # NullPool
          ls2 == IF clone THEN Append(ls1, Clone(ls1[1])) ELSE ls1
          \* the index of `laser` in the pool; 0: laser is undefined
          slot == IF reuse THEN _activeLasers + 1
                  ELSE IF clone THEN Len(ls2) ELSE 0
      IN /\ Room(Len(ls2) - Len(_lasers))
         /\ _activeLasers' = NextActive(_activeLasers)
         /\ _lasers' = IF slot = 0 THEN ls2
                       ELSE [ls2 EXCEPT ![slot] = WithMatrix(@, matrix)]
         /\ last' = Last("addLaserPointer", "", FALSE, {}, slot)
         /\ acq' = IF slot = 0 THEN acq
                   ELSE IF LaserMeshNeeded THEN SeededWith("lasers", slot)
                   ELSE Acquired("lasers", slot)
         /\ frame' = Shown("lasers", slot)
         /\ calls' = Called("lasers", slot, matrix, FALSE)
         /\ made' = IF LaserMeshNeeded THEN Made("lasers") ELSE made
         /\ UNCHANGED <<_controllers, _cursors, _activeCursors, _blurred,
                        _renderer, _maxInputElements, unreferenced, pending, watch, track, awaiting>>

(***************************************************************************)
(* addCursor, lines 365-387.                                               *)
(***************************************************************************)
\* (mutant of CursorReturnsEarly: _blurred is not tested)
CursorIgnoresBlur == FALSE

\* line 366
CursorReturnsEarly == _blurred

\* line 370
CursorMeshNeeded == _cursors = NullPool /\ _renderer # NoRenderer

addCursor(cursorPos) ==
  IF CursorReturnsEarly
    THEN /\ last' = Last("addCursor", "", FALSE, {}, 0)
         /\ UNCHANGED <<progVars, pending, watch, made, track, awaiting, calls, acq, frame>>
    ELSE
      LET cs1 == IF CursorMeshNeeded THEN <<NewNode("cursor")>> ELSE _cursors
      IN IF cs1 = NullPool
           \* line 376: this._cursors.length with this._cursors null throws a
           \* TypeError; nothing was assigned before it.
           THEN /\ last' = Last("addCursor", "", TRUE, {}, 0)
                /\ calls' = Called("cursors", 0, cursorPos, TRUE)
                /\ UNCHANGED <<progVars, pending, watch, made, track, awaiting, acq, frame>>
           ELSE
             LET reuse == _activeCursors < Len(cs1)
                 cs2 == IF reuse THEN cs1 ELSE Append(cs1, Clone(cs1[1]))
                 slot == IF reuse THEN _activeCursors + 1 ELSE Len(cs2)
             IN /\ Room(Len(cs2) - Len(_cursors))
                /\ _activeCursors' = NextActive(_activeCursors)
                /\ _cursors' = [cs2 EXCEPT ![slot] = WithTranslation(@, cursorPos)]
                /\ last' = Last("addCursor", "", FALSE, {}, slot)
                /\ acq' = IF CursorMeshNeeded THEN SeededWith("cursors", slot)
                          ELSE Acquired("cursors", slot)
                /\ frame' = Shown("cursors", slot)
                /\ calls' = Called("cursors", slot, cursorPos, FALSE)
                /\ made' = IF CursorMeshNeeded THEN Made("cursors") ELSE made
                /\ UNCHANGED <<_controllers, _lasers, _activeLasers, _blurred,
                               _renderer, _maxInputElements, unreferenced,
                               pending, watch, track, awaiting>>

(***************************************************************************)
(* reset, lines 389-414.  The argument is <<>> (no options given) or       *)
(* <<s>> with s the set of kinds whose option is true.                     *)
(***************************************************************************)
\* lines 71-75
DEFAULT_RESET_OPTIONS == Kinds

ResetArguments == {<<>>} \cup {<<s>> : s \in SUBSET Kinds}

\* lines 390-392
Options(arg) == IF arg = <<>> THEN DEFAULT_RESET_OPTIONS ELSE arg[1]

\* (mutant of ActiveAfterReset: the count is left as it is)
ActiveKeptByReset(count) == count

\* lines 396, 406, 412: the active count a reset leaves.
ActiveAfterReset(count) == 0

reset(arg) ==
  LET options == Options(arg)
      controllers == _controllers # NullMap /\ "controllers" \in options
      lasers == _lasers # NullPool /\ "lasers" \in options
      cursors == _cursors # NullPool /\ "cursors" \in options
  IN /\ _controllers' =
          IF controllers
            THEN [k \in DOMAIN _controllers |->
                    [_controllers[k] EXCEPT !.activeCount = ActiveAfterReset(@),
                                            !.nodes = Hide(@)]]
            ELSE _controllers
     /\ _lasers' = IF lasers THEN Hide(_lasers) ELSE _lasers
     /\ _activeLasers' = IF lasers THEN ActiveAfterReset(_activeLasers)
                                   ELSE _activeLasers
     /\ _cursors' = IF cursors THEN Hide(_cursors) ELSE _cursors
     /\ _activeCursors' = IF cursors THEN ActiveAfterReset(_activeCursors)
                                     ELSE _activeCursors
     /\ last' = Last("reset", "", FALSE, options, 0)
     /\ acq' = Stale((IF "controllers" \in options THEN Keys ELSE {})
                      \cup (options \cap {"lasers", "cursors"}))
     /\ frame' = FrameAfterReset(options)
     /\ calls' = CountedFrom(options)
     /\ track' = TrackReset(options)
     /\ UNCHANGED <<_blurred, _renderer, _maxInputElements, unreferenced,
                    pending, watch, made, awaiting>>

(***************************************************************************)
(* useProfileControllerMeshes, lines 262-274: the inputsourceschange       *)
(* listener and the fetchProfile requests it issues.  A request is the     *)
(* promise of line 269 with the input source its callback closes over;     *)
(* resolvable tells how the profile lookup for that device ends.           *)
(***************************************************************************)
\* XRInputSource.targetRayMode
TargetRayModes == {"tracked-pointer", "gaze"}

InputSources ==
  [targetRayMode : TargetRayModes, handedness : Handednesses,
   profiles : {<<p>> : p \in Profiles}, resolvable : BOOLEAN]

\* event.added: the input sources connected by one event, one source or
\* one for each hand.
AddedLists ==
  {<<a>> : a \in InputSources}
    \cup {<<a, b>> : a \in {x \in InputSources : x.handedness = "left"},
                    b \in {x \in InputSources : x.handedness = "right"}}

\* line 268
IsTrackedPointer(inputSource) == inputSource.targetRayMode = "tracked-pointer"

\* line 269: the request issued for an input source.
Request(inputSource) ==
  [handedness |-> inputSource.handedness, profile |-> inputSource.profiles[1],
   resolvable |-> inputSource.resolvable]

Requests == {Request(a) : a \in InputSources}

\* lines 267-273: the requests the loop over event.added issues.
RECURSIVE Fetched(_)
Fetched(added) ==
  IF added = <<>> THEN EmptyBag
  ELSE (IF IsTrackedPointer(Head(added))
          THEN SetToBag({Request(Head(added))}) ELSE EmptyBag)
         (+) Fetched(Tail(added))

inputsourceschange(added) ==
  /\ ChildCount + BagCardinality(pending (+) Fetched(added)) <= MaxNodes
  /\ pending' = pending (+) Fetched(added)
  /\ last' = Last("inputsourceschange", "", FALSE, {}, 0)
  /\ frame' = NotAFrame
  /\ UNCHANGED <<progVars, watch, made, track, awaiting, calls, acq>>

\* (mutant of Rejected: the callback of line 270 runs on rejection too)
RejectedRegisters(request) ==
  RegisterControllerMesh(request.handedness, request.profile)

\* line 269: then() is given no rejection handler, so a rejected request
\* runs nothing of the InputRenderer.
Rejected(request) == UNCHANGED <<_controllers, unreferenced>>

\* lines 269-271: the request is fulfilled and the callback of then() runs
\* (a microtask: no other call comes between the two).
fetchProfileThen(request) ==
  /\ request \in BagToSet(pending) /\ request.resolvable
  /\ pending' = pending (-) SetToBag({request})
  /\ RegisterControllerMesh(request.handedness, request.profile)
  /\ last' = Last("fetchProfile.then", "", FALSE, {}, 0)
  /\ acq' = SeededWith(ControllerKey(request.profile, request.handedness), 0)
  /\ frame' = NotAFrame
  /\ calls' = Uncounted({ControllerKey(request.profile, request.handedness)})
  /\ awaiting' = Registered(ControllerKey(request.profile, request.handedness))
  /\ track' = TrackRegistered(ControllerKey(request.profile, request.handedness))
  /\ UNCHANGED <<_lasers, _cursors, _activeLasers, _activeCursors,
                 _blurred, _renderer, _maxInputElements, watch, made>>

\* line 269: the request is rejected.  The promise then() returned is
\* rejected with no handler: the host reports it, no call of the
\* InputRenderer or of the session sees it.
fetchProfileRejected(request) ==
  /\ request \in BagToSet(pending) /\ ~request.resolvable
  /\ pending' = pending (-) SetToBag({request})
  /\ Rejected(request)
  /\ last' = Last("fetchProfile.rejected", "", FALSE, {}, 0)
  /\ frame' = NotAFrame
  /\ UNCHANGED <<_lasers, _cursors, _activeLasers, _activeCursors,
                 _blurred, _renderer, _maxInputElements, watch, made, track, awaiting, calls, acq>>

Next ==
  \/ \E r \in Renderers \cup {NoRenderer} : SetRenderer(r)
  \/ \E s \in VisibilityStates : visibilitychange(s)
  \/ \E h \in Handednesses, p \in Profiles : setControllerMesh(h, p)
  \/ \E h \in Handednesses, p \in Profiles :
       \E g \in PosesOf(ControllerKey(p, h)) : addController(g, h, p)
  \/ \E h \in Handednesses, p \in Profiles : hideController(h, p)
  \/ \E m \in PosesOf("lasers") : addLaserPointer(m)
  \/ \E c \in PosesOf("cursors") : addCursor(c)
  \/ \E arg \in ResetArguments : reset(arg)

\* The steps of a session whose input sources connect: the calls above and
\* the device lifecycle.
NextDevices ==
  \/ Next
  \/ \E added \in AddedLists : inputsourceschange(added)
  \/ \E request \in Requests : fetchProfileThen(request)
  \/ \E request \in Requests : fetchProfileRejected(request)

\* Spec records the operations (last); SpecResets the resets and the show
\* calls after them (last); SpecPools the acquisitions of each pool (acq);
\* SpecFrames the frames (frame).
Init == InitWatching("ops")
InitResets == InitWatching("resets")
InitPools == InitWatching("pools")
InitFrames == InitWatching("frames")
InitDevices == InitWatching("devices")
InitOverflow == InitWatching("overflow")
InitLateBound == InitWatching("latebound")
InitInterleaving == InitWatching("interleaving")
InitMeshes == InitWatching("meshes")

Spec == Init /\ [][Next]_vars
SpecResets == InitResets /\ [][Next]_vars
SpecPools == InitPools /\ [][Next]_vars
SpecFrames == InitFrames /\ [][Next]_vars

\* SpecOverflow records the poses shown from one pool since its reset (calls).
SpecOverflow == InitOverflow /\ [][Next]_vars

\* SpecInterleaving records one key's addController calls around its
\* registration (track).
SpecInterleaving == InitInterleaving /\ [][Next]_vars

\* SpecMeshes records the laser and cursor meshes created (made).
SpecMeshes == InitMeshes /\ [][Next]_vars

\* SpecDevices records the device lifecycle steps (last).
SpecDevices == InitDevices /\ [][NextDevices]_vars

\* SpecLateBound records the keys registered by a request and not shown
\* since (awaiting).  A request whose lookup succeeds is fulfilled in the
\* end, and the callback of then() runs when it is (lines 269-271).
SpecLateBound ==
  /\ InitLateBound /\ [][NextDevices]_vars
  /\ \A request \in Requests : WF_vars(fetchProfileThen(request))

(***************************************************************************)
(* What the claims speak of.                                               *)
(***************************************************************************)
\* The instances of pool p (<<>> if the pool does not exist) in the pools
\* given.
PoolSeqIn(controllers, lasers, cursors, p) ==
  IF p \in Keys
    THEN IF p \in DOMAIN controllers THEN controllers[p].nodes ELSE <<>>
  ELSE IF p = "lasers" THEN lasers
  ELSE cursors

PoolSeq(p) == PoolSeqIn(_controllers, _lasers, _cursors, p)

\* The instances of pool p after the step.
PoolSeqAfter(p) == PoolSeqIn(_controllers', _lasers', _cursors', p)

\* The active cursor of pool p (0 for a controller pool that does not exist).
PoolActiveIn(controllers, activeLasers, activeCursors, p) ==
  IF p \in Keys
    THEN IF p \in DOMAIN controllers THEN controllers[p].activeCount ELSE 0
  ELSE IF p = "lasers" THEN activeLasers
  ELSE activeCursors

PoolActive(p) == PoolActiveIn(_controllers, _activeLasers, _activeCursors, p)

PoolActiveAfter(p) ==
  PoolActiveIn(_controllers', _activeLasers', _activeCursors', p)

\* The visible instances of the pools, as <<pool, slot>>.
VisibleInstances ==
  UNION {{<<p, i>> : i \in {j \in DOMAIN PoolSeq(p) : PoolSeq(p)[j].visible}} :
           p \in PoolNames}

\* The visible children no pool refers to.
VisibleUnreferenced == {n \in BagToSet(unreferenced) : n.visible}

ShowOps == {"addController", "addLaserPointer", "addCursor"}

ShowCall ==
  \/ \E h \in Handednesses, p \in Profiles :
       \E g \in PosesOf(ControllerKey(p, h)) : addController(g, h, p)
  \/ \E m \in PosesOf("lasers") : addLaserPointer(m)
  \/ \E c \in PosesOf("cursors") : addCursor(c)

(***************************************************************************)
(* C1 (as claimed): after a reset of all kinds followed by show calls only *)
(* (no more than the capacity per pool, session not suspended), the        *)
(* visible children of the InputRenderer are exactly the instances those   *)
(* show calls acquired; every other child is hidden, the children of       *)
(* replaced or discarded pools included.                                   *)
(***************************************************************************)
C1_FrameVisibleSet ==
  (frame.clean /\ ~frame.wrapped /\ ~_blurred)
    => (VisibleInstances = frame.shown /\ VisibleUnreferenced = {})

(***************************************************************************)
(* C2 (as claimed): a setControllerMesh for a key that has a pool is       *)
(* ignored: the pool keeps its first node as slot 0, its instance sequence *)
(* and its active cursor, and no node stops being the pool's.              *)
(***************************************************************************)
C2_RegistrationIdempotent ==
  [][\A h \in Handednesses, p \in Profiles :
       (setControllerMesh(h, p) /\ ControllerKey(p, h) \in DOMAIN _controllers)
         => /\ _controllers'[ControllerKey(p, h)] = _controllers[ControllerKey(p, h)]
            /\ unreferenced' = unreferenced]_vars

(***************************************************************************)
(* C3: on a pool freshly seeded, with no reset in between, acquisition N   *)
(* returns an instance distinct from all earlier ones for N up to the      *)
(* capacity, acquisition capacity + 1 returns the instance of acquisition  *)
(* 1, and with capacity 2 three acquisitions return the instances at       *)
(* indices 0, 1, 0 (slots 1, 2, 1).                                        *)
(***************************************************************************)
C3_RoundRobin ==
  \A p \in PoolNames :
    acq[p].fresh =>
      LET s == acq[p].seq
          max == _maxInputElements
      IN /\ \A i \in DOMAIN s : s[i] \in DOMAIN PoolSeq(p)
         /\ \A i, j \in DOMAIN s : (i < j /\ j <= max) => s[i] # s[j]
         /\ Len(s) = max + 1 => s[max + 1] = s[1]
         /\ (max = 2 /\ Len(s) = 3) => s = <<1, 2, 1>>

\* A pool went one acquisition past a full round.
C3_Witness ==
  \E p \in PoolNames :
    acq[p].fresh /\ Len(acq[p].seq) = _maxInputElements + 1

(***************************************************************************)
(* C4 (as claimed): no show call raises an error.                          *)
(***************************************************************************)
C4_ShowNeverThrows == last.op \in ShowOps => ~last.threw

(***************************************************************************)
(* C5: while _blurred is true a show call changes nothing: no pool, no     *)
(* active cursor, no instance's transform or visibility, no child; and it  *)
(* raises no error.                                                        *)
(***************************************************************************)
C5_SuspendedShowIsNoOp ==
  [][(_blurred /\ ShowCall) => (UNCHANGED progVars /\ ~last'.threw)]_vars

\* A show call was made while suspended, with an instance visible.
C5_Witness ==
  _blurred /\ last.op \in ShowOps /\ VisibleInstances # {}

(***************************************************************************)
(* C6 (as claimed): with no renderer attached addLaserPointer and          *)
(* addCursor leave the laser and cursor pools absent, the active laser and *)
(* cursor counters as they were, and every child as it was.                *)
(***************************************************************************)
C6_NoRendererNoOp ==
  [][(/\ _renderer = NoRenderer
      /\ \/ \E m \in PosesOf("lasers") : addLaserPointer(m)
         \/ \E c \in PosesOf("cursors") : addCursor(c))
       => /\ _lasers' = NullPool /\ _cursors' = NullPool
          /\ UNCHANGED <<_activeLasers, _activeCursors, _controllers,
                         unreferenced>>]_vars

(***************************************************************************)
(* C7 (as claimed): after a renderer change every instance any pool had    *)
(* created is hidden, every active cursor is 0, and the laser and cursor   *)
(* pools (with their mesh templates) are gone.                             *)
(***************************************************************************)
C7_RendererChangeResets ==
  last.op = "onRendererChanged"
    => /\ VisibleInstances = {} /\ VisibleUnreferenced = {}
       /\ \A p \in PoolNames : PoolActive(p) = 0
       /\ _lasers = NullPool /\ _cursors = NullPool

(***************************************************************************)
(* C8: a show call that follows a reset of its kind immediately and        *)
(* acquires an instance acquires the one at index 0 (slot 1) of its pool;  *)
(* that instance was hidden when the reset had ended and is visible after  *)
(* the show call.                                                          *)
(***************************************************************************)
LastPool(l) ==
  IF l.op = "addController" THEN l.key
  ELSE IF l.op = "addLaserPointer" THEN "lasers"
  ELSE "cursors"

C8_ResetThenAcquire ==
  [][(last.op = "reset" /\ last'.afterReset /\ last'.slot # 0)
       => LET p == LastPool(last')
          IN /\ last'.slot = 1
             /\ PoolSeq(p) # <<>> => ~PoolSeq(p)[1].visible
             /\ PoolSeqAfter(p)[1].visible]_vars

\* Such a show call on a pool of two instances.
C8_Witness ==
  /\ last.afterReset /\ last.slot = 1
  /\ Len(PoolSeq(LastPool(last))) >= 2

(***************************************************************************)
(* C9 (as claimed): a reset touches the selected kinds only: every         *)
(* instance of a selected kind is hidden and the active cursor of every    *)
(* selected kind is 0, while the pools, instances and active cursors of    *)
(* the other kinds are as before; and a show call that follows the reset   *)
(* of its kind immediately and acquires an instance leaves exactly one     *)
(* instance of its pool visible.                                           *)
(***************************************************************************)
KindOfPool(p) ==
  IF p \in Keys THEN "controllers" ELSE p

C9_SelectiveReset ==
  [][/\ \A arg \in ResetArguments :
          reset(arg) =>
            \A p \in PoolNames :
              IF KindOfPool(p) \in Options(arg)
                THEN /\ \A i \in DOMAIN PoolSeqAfter(p) :
                          ~PoolSeqAfter(p)[i].visible
                     /\ PoolActiveAfter(p) = 0
                ELSE /\ PoolSeqAfter(p) = PoolSeq(p)
                     /\ PoolActiveAfter(p) = PoolActive(p)
     /\ (last.op = "reset" /\ last'.afterReset /\ last'.slot # 0)
          => Cardinality({i \in DOMAIN PoolSeqAfter(LastPool(last')) :
                            PoolSeqAfter(LastPool(last'))[i].visible}) = 1]_vars

(***************************************************************************)
(* C10: addController for a key that has no pool creates no pool, adds no  *)
(* child, changes no pool and raises no error, whether or not other keys   *)
(* have pools.                                                             *)
(***************************************************************************)
C10_UnregisteredKeyNoOp ==
  [][\A h \in Handednesses, p \in Profiles :
     \A g \in PosesOf(ControllerKey(p, h)) :
       (addController(g, h, p) /\ ControllerKey(p, h) \notin DOMAIN _controllers)
         => (UNCHANGED progVars /\ ~last'.threw)]_vars

\* addController was called, the session not suspended, for a key without a
\* pool while another key has one.
C10_Witness ==
  /\ last.op = "addController" /\ ~_blurred
  /\ last.key \notin DOMAIN _controllers
  /\ _controllers # NullMap

C12_ResetIdempotent ==
  [][\A arg \in ResetArguments :
       reset(arg) =>
         /\ (last.op = "reset" /\ last.opts = Options(arg))
              => UNCHANGED progVars
         /\ \A p \in PoolNames :
              KindOfPool(p) \in Options(arg)
                => /\ \A i \in DOMAIN PoolSeqAfter(p) :
                        ~PoolSeqAfter(p)[i].visible
                   /\ PoolActiveAfter(p) = 0]_vars

(***************************************************************************)
(* C13 (as claimed): for every pool (each controller key, lasers,          *)
(* cursors), 0 <= active cursor < capacity and the pool holds at least as  *)
(* many instances as its active cursor, also when addLaserPointer or       *)
(* addCursor were called before a renderer was attached.                   *)
(***************************************************************************)
C13_SlotPoolInvariant ==
  \A p \in PoolNames :
    /\ 0 <= PoolActive(p) /\ PoolActive(p) < _maxInputElements
    /\ Len(PoolSeq(p)) >= PoolActive(p)

(***************************************************************************)
(* C14: no pool ever holds more than _maxInputElements instances.          *)
(***************************************************************************)
C14_CapacityCeiling ==
  \A p \in PoolNames : Len(PoolSeq(p)) <= _maxInputElements

\* A full pool whose active cursor wrapped to 0: it was acquired from once
\* more than it has room and did not grow.
C14_Witness ==
  \E p \in PoolNames :
    /\ Len(PoolSeq(p)) = _maxInputElements /\ PoolActive(p) = 0
    /\ \A i \in DOMAIN PoolSeq(p) : PoolSeq(p)[i].visible
    /\ last.op \in ShowOps

(***************************************************************************)
(* C15 (as claimed): a controller key that has a pool has one in every     *)
(* later state, and the pool's instance sequence only grows: no step       *)
(* removes the key, shortens the sequence or puts an instance out of the   *)
(* pool.                                                                    *)
(***************************************************************************)
C15_RegistryPermanent ==
  [][\A k \in DOMAIN _controllers :
       /\ k \in DOMAIN _controllers'
       /\ Len(_controllers'[k].nodes) >= Len(_controllers[k].nodes)
       /\ unreferenced' = unreferenced]_vars

(***************************************************************************)
(* C16: a session visibility event changes the suspension flag only:       *)
(* "visible-blurred" sets it, "visible" clears it, any other state leaves  *)
(* it; no pool, active cursor, instance (visibility, transform) or child   *)
(* changes, so what was visible stays visible.                             *)
(***************************************************************************)
C16_VisibilityOnlyFlag ==
  [][\A state \in VisibilityStates :
       visibilitychange(state)
         => /\ _blurred' = IF state = "visible-blurred" THEN TRUE
                           ELSE IF state = "visible" THEN FALSE
                           ELSE _blurred
            /\ UNCHANGED <<_controllers, _lasers, _cursors, _activeLasers,
                           _activeCursors, _renderer, _maxInputElements,
                           unreferenced>>]_vars

\* The session was suspended by the last event, with instances visible.
C16_Witness ==
  /\ last.op = "visibilitychange" /\ _blurred
  /\ VisibleInstances # {}

(***************************************************************************)
(* C17: when more show calls than the capacity were made on one pool since *)
(* its reset (k calls, no reset, registration or renderer change in        *)
(* between; calls a suspended session ignored are not among them), exactly *)
(* capacity instances of the pool are visible, none of the calls raised an *)
(* error, and the instance at index i carries the pose of the latest call  *)
(* j with (j - 1) mod capacity = i.                                        *)
(***************************************************************************)
\* The transform a show call on pool p writes.
Transform(p, node) == IF p = "cursors" THEN node.translation ELSE node.matrix

\* The latest of calls 1..k with (j - 1) mod max = i.
LatestCall(k, max, i) ==
  CHOOSE j \in 1..k :
    /\ (j - 1) % max = i
    /\ \A j2 \in 1..k : (j2 - 1) % max = i => j2 <= j

C17_OverflowLastWriterWins ==
  LET p == calls.pool
      k == Len(calls.poses)
      max == _maxInputElements
  IN (calls.counted /\ k > max)
       => /\ Cardinality({i \in DOMAIN PoolSeq(p) : PoolSeq(p)[i].visible}) = max
          /\ ~calls.threw
          /\ \A i \in 0..(max - 1) :
               Transform(p, PoolSeq(p)[i + 1])
                 = calls.poses[LatestCall(k, max, i)]

\* Overflow by two calls, the calls that wrapped carrying another pose than
\* the calls they overwrote.
C17_Witness ==
  /\ calls.counted /\ Len(calls.poses) = _maxInputElements + 2
  /\ calls.poses[1] # calls.poses[_maxInputElements + 1]
  /\ calls.poses[2] # calls.poses[_maxInputElements + 2]

(***************************************************************************)
(* C18 (as claimed): a request issued for a connected tracked-pointer      *)
(* input source whose lookup succeeds leads to a pool registered for the   *)
(* source's key; the first addController for that key made afterwards      *)
(* while the session is Ready leaves an instance of the key visible with   *)
(* the pose supplied; and an event that adds input sources of other target *)
(* ray modes only issues no request and registers nothing.                 *)
(***************************************************************************)
C18_LateBoundMesh ==
  /\ \A request \in Requests :
       (request.resolvable /\ request \in BagToSet(pending))
         ~> (ControllerKey(request.profile, request.handedness)
               \in DOMAIN _controllers)
  /\ [][\A h \in Handednesses, p \in Profiles :
        \A g \in PosesOf(ControllerKey(p, h)) :
          (/\ addController(g, h, p)
           /\ ControllerKey(p, h) \in awaiting /\ Ready)
            => \E i \in DOMAIN PoolSeqAfter(ControllerKey(p, h)) :
                 /\ PoolSeqAfter(ControllerKey(p, h))[i].visible
                 /\ PoolSeqAfter(ControllerKey(p, h))[i].matrix = g]_vars
  /\ [][\A added \in AddedLists :
          (/\ inputsourceschange(added)
           /\ \A n \in DOMAIN added : added[n].targetRayMode # "tracked-pointer")
            => (pending' = pending /\ UNCHANGED progVars)]_vars

(***************************************************************************)
(* C19: for one key, its registration interleaved with resets and          *)
(* addController calls for it (and any calls for other pools): the         *)
(* addController calls made before the registration change nothing, and    *)
(* from the registration on the number of visible instances of the key     *)
(* equals the number of addController calls for the key made since the     *)
(* later of the registration and the last reset of the controllers, capped *)
(* at the capacity, whether or not calls preceded the registration.        *)
(***************************************************************************)
C19_InterleavingNoResidue ==
  /\ [](track.phase = "tracked"
          => Cardinality({i \in DOMAIN PoolSeq(track.key) :
                            PoolSeq(track.key)[i].visible}) = track.count)
  /\ [][\A h \in Handednesses, p \in Profiles :
        \A g \in PosesOf(ControllerKey(p, h)) :
          (/\ addController(g, h, p)
           /\ ControllerKey(p, h) = track.key /\ track.phase = "before")
            => UNCHANGED progVars]_vars

\* addController calls preceded the registration, and as many calls as the
\* capacity followed it.
C19_Witness ==
  /\ track.phase = "tracked" /\ track.early
  /\ track.count = _maxInputElements

(***************************************************************************)
(* C20 (as claimed): on one InputRenderer _createLaserMesh is invoked at   *)
(* most once and _createCursorMesh at most once, whatever the operations.  *)
(***************************************************************************)
C20_MeshMemoized ==
  made["lasers"].ever <= 1 /\ made["cursors"].ever <= 1

(***************************************************************************)
(* C20 (amended): between two renderer changes _createLaserMesh is invoked *)
(* at most once and _createCursorMesh at most once; and an addLaserPointer *)
(* or addCursor that finds its pool present (session not suspended)        *)
(* creates no mesh and takes its instance from the pool or clones slot 0.  *)
(***************************************************************************)
C20_MeshOncePerRenderer ==
  /\ [](made["lasers"].now <= 1 /\ made["cursors"].now <= 1)
  /\ [][\A m \in PosesOf("lasers") :
          (addLaserPointer(m) /\ _lasers # NullPool /\ ~_blurred)
            => /\ made' = made
               /\ \/ \E i \in DOMAIN _lasers :
                       _lasers' = [_lasers EXCEPT ![i] = WithMatrix(@, m)]
                  \/ _lasers' = Append(_lasers, WithMatrix(Clone(_lasers[1]), m))]_vars
  /\ [][\A c \in PosesOf("cursors") :
          (addCursor(c) /\ _cursors # NullPool /\ ~_blurred)
            => /\ made' = made
               /\ \/ \E i \in DOMAIN _cursors :
                       _cursors' = [_cursors EXCEPT ![i] = WithTranslation(@, c)]
                  \/ _cursors' =
                       Append(_cursors, WithTranslation(Clone(_cursors[1]), c))]_vars

\* The laser mesh was created again after a renderer change, and the new
\* pool holds a clone of it.
C20_Witness ==
  /\ made["lasers"].ever = 2 /\ made["lasers"].now = 1
  /\ Len(_lasers) >= 2

\* The children of the InputRenderer (every node handed to addNode, lines
\* 293, 308, 337, 345, 371, 379), as a bag.
Children ==
  ControllerBag(DOMAIN _controllers) (+) BagOfSeq(_lasers)
    (+) BagOfSeq(_cursors) (+) unreferenced

\* The visible children, as a bag.
VisibleChildren ==
  [n \in {m \in BagToSet(Children) : m.visible} |-> Children[n]]

(***************************************************************************)
(* C21: while the session stays suspended (_blurred true before and after  *)
(* the step) the visible nodes gain no member, whatever the operation      *)
(* (show call, reset, hideController, registration, renderer change,       *)
(* visibility event): an instance visible after the step is the same       *)
(* instance, at the same index of the same pool, and was visible before;   *)
(* the visible children after the step are among the visible children      *)
(* before it (a step that leaves the pools and the other children as they  *)
(* were has nothing to compare); and the pool of a key registered by the   *)
(* step holds one hidden node.                                             *)
(***************************************************************************)
C21_SuspendedVisibleSetNeverGrows ==
  [][(_blurred /\ _blurred')
       => /\ \A p \in PoolNames : \A i \in DOMAIN PoolSeqAfter(p) :
               PoolSeqAfter(p)[i].visible
                 => /\ i \in DOMAIN PoolSeq(p)
                    /\ PoolSeq(p)[i] = PoolSeqAfter(p)[i]
          /\ \/ UNCHANGED <<_controllers, _lasers, _cursors, unreferenced>>
             \/ VisibleChildren' \sqsubseteq VisibleChildren
          /\ last'.op = "setControllerMesh"
               => /\ Len(PoolSeqAfter(last'.key)) = 1
                  /\ ~PoolSeqAfter(last'.key)[1].visible]_vars

\* A controller was registered while the session was suspended, with an
\* instance shown before the suspension still visible.
C21_Witness ==
  /\ _blurred /\ last.op = "setControllerMesh"
  /\ VisibleInstances # {}

(***************************************************************************)
(* C22: hideController changes no node: for a registered or unregistered   *)
(* key the registered keys, every pool's instance sequence (each           *)
(* instance's visibility and transform with it), every active cursor and   *)
(* every other child are the same after the call as before it, so the      *)
(* instances of the key shown before the call remain visible.              *)
(***************************************************************************)
C22_HideControllerChangesNoNode ==
  [][last'.op = "hideController"
       => /\ DOMAIN _controllers' = DOMAIN _controllers
          /\ \A p \in PoolNames : /\ PoolSeqAfter(p) = PoolSeq(p)
                                  /\ PoolActiveAfter(p) = PoolActive(p)
          /\ VisibleInstances' = VisibleInstances
          /\ UNCHANGED <<unreferenced, _blurred, _renderer,
                         _maxInputElements>>]_vars

\* hideController was called for a registered key with an instance of that
\* key shown before the call, and that instance is visible.
C22_Witness ==
  /\ last.op = "hideController"
  /\ last.key \in DOMAIN _controllers
  /\ _controllers[last.key].visible
  /\ \E i \in DOMAIN _controllers[last.key].nodes :
       _controllers[last.key].nodes[i].visible

====
